---- MODULE Spec2Model ----
(***************************************************************************)
(* Model of the VFS garbage collector of the Midnight Commander            *)
(* (lib/vfs/gc.c): the list of stamps, the operations that touch, remove   *)
(* and conditionally create stamps, the expiry sweep with its recursion    *)
(* latch, and the teardown.  The sweep and the teardown are modelled step  *)
(* by step, with an explicit call stack, because the free callback of a    *)
(* VFS class may call vfs_expire () again while it runs.                   *)
(***************************************************************************)
EXTENDS Integers, Sequences, FiniteSets, TLC

(***************************************************************************)
(* Bounds and input sets.                                                  *)
(***************************************************************************)
\* longest list of stamps the model lets the calls build
MaxStamps == 2
\* how many times one run of a free callback may call vfs_expire ()
MaxNestedCalls == 1

\* int vfs_timeout = 60;
DefaultTimeout == 60
\* values the user may configure vfs_timeout to at runtime
Timeouts == {59, 60}

\* readings of gettimeofday (): seconds and microseconds
Times ==
    {[tv_sec |-> 0, tv_usec |-> 1], [tv_sec |-> 59, tv_usec |-> 1],
     [tv_sec |-> 60, tv_usec |-> 0], [tv_sec |-> 60, tv_usec |-> 1]}
FirstTime == [tv_sec |-> 0, tv_usec |-> 1]

\* the VFS classes: "local" carries VFSF_LOCAL and has a nothingisopen
\* callback but no free callback, "A" has both callbacks, "B" has a free
\* callback but no nothingisopen callback
VfsClasses == {"local", "A", "B"}
\* vfsid values; "NULL" is the null pointer
VfsIds == {"NULL", "s1", "s2"}

\* struct vfs_class, as far as gc.c reads it
vfs_class ==
    [c \in VfsClasses |->
        [VFSF_LOCAL |-> (c = "local"),
         free |-> (c # "local"),
         nothingisopen |-> (c # "B")]]

\* what a path resolves to: the class of its last element and vfs_getid ()
Paths ==
    {[v |-> "local", id |-> "s1"],
     [v |-> "A", id |-> "s1"], [v |-> "A", id |-> "s2"],
     [v |-> "A", id |-> "NULL"], [v |-> "B", id |-> "s1"]}
\* the (vclass, id) arguments callers pass; vclass may be the null pointer
Args == Paths \cup {[v |-> "NULL", id |-> "s1"]}
\* what vfs_get_raw_current_dir () may resolve to
CurrentDirs == {[v |-> "local", id |-> "NULL"], [v |-> "A", id |-> "s1"]}

AllKeys == [v : VfsClasses \cup {"NULL"}, id : VfsIds]
NoKey == [v |-> "NULL", id |-> "NULL"]
ZeroTime == [tv_sec |-> 0, tv_usec |-> 0]

VARIABLES
    stamps,         \* static GSList *stamps: sequence of struct vfs_stamping
    locked,         \* static gboolean locked of vfs_expire ()
    vfs_timeout,    \* int vfs_timeout
    clock,          \* what gettimeofday () returns now
    stack,          \* call stack of the running sweep or teardown
    crashed,        \* the process read freed memory and died
    op,             \* the last public call: name, arguments, observations
    pre,            \* stamps when the last public call began, kept for
                    \* vfs_expire (), vfs_timeout_handler () and vfs_gc_done ()
    released        \* number of v->free (id) calls per (v, id) since the
                    \* last public call began

vars == <<stamps, locked, vfs_timeout, clock, stack, crashed, op, pre,
          released>>

(***************************************************************************)
(* Helpers on the list.                                                    *)
(***************************************************************************)
Key(v, id) == [v |-> v, id |-> id]
KeyOf(stamp) == [v |-> stamp.v, id |-> stamp.id]
NoRelease == [k \in AllKeys |-> 0]

\* timeoutcmp () with the microseconds compared by < instead of <=
timeoutcmp_strict(t1, t2) ==
    \/ t1.tv_sec < t2.tv_sec
    \/ (t1.tv_sec = t2.tv_sec /\ t1.tv_usec < t2.tv_usec)

\* timeoutcmp (): "t1 is not later than t2"
timeoutcmp(t1, t2) ==
    \/ t1.tv_sec < t2.tv_sec
    \/ (t1.tv_sec = t2.tv_sec /\ t1.tv_usec <= t2.tv_usec)

\* vfs_stamp_compare (): 0 when class and id are both identical
vfs_stamp_compare(a, b) == IF a.v = b.v /\ a.id = b.id THEN 0 ELSE 1

\* g_slist_find_custom (stamps, &what, vfs_stamp_compare): index of the first
\* element that compares 0, or 0 for NULL
g_slist_find_custom(list, what) ==
    LET hits == {i \in 1..Len(list) : vfs_stamp_compare(list[i], what) = 0}
    IN  IF hits = {} THEN 0 ELSE CHOOSE i \in hits : \A j \in hits : i <= j

\* g_slist_delete_link (list, link)
g_slist_delete_link(list, i) ==
    SubSeq(list, 1, i - 1) \o SubSeq(list, i + 1, Len(list))

(***************************************************************************)
(* The registry operations, as functions of the list.                      *)
(***************************************************************************)
\* vfs_stamp () that finds the stamp but does not write its time
vfs_stamp_norefresh(list, v, id, tv) ==
    [ret |-> g_slist_find_custom(list, Key(v, id)) # 0, stamps |-> list]

\* vfs_stamp (v, id): refresh the time of the first matching stamp;
\* ret is the function's return value, stamps the list afterwards
vfs_stamp(list, v, id, tv) ==
    LET stamp == g_slist_find_custom(list, Key(v, id))
    IN  IF stamp # 0
        THEN [ret |-> TRUE, stamps |-> [list EXCEPT ![stamp].time = tv]]
        ELSE [ret |-> FALSE, stamps |-> list]

\* vfs_rmstamp () whose search compares the class alone
vfs_rmstamp_byclass(list, v, id) ==
    LET hits == {i \in 1..Len(list) : list[i].v = v}
    IN  IF hits = {} THEN list
        ELSE g_slist_delete_link(list,
                                 CHOOSE i \in hits : \A j \in hits : i <= j)

\* vfs_rmstamp (v, id): delete the first matching stamp, call no callback
vfs_rmstamp(list, v, id) ==
    LET stamp == g_slist_find_custom(list, Key(v, id))
    IN  IF stamp # 0 THEN g_slist_delete_link(list, stamp) ELSE list

\* vfs_addstamp () without the vfs_stamp () test: it appends every time
vfs_addstamp_nodedup(list, v, id, tv) ==
    IF vfs_class[v].VFSF_LOCAL \/ id = "NULL"
    THEN list
    ELSE Append(list, [v |-> v, id |-> id, time |-> tv])

\* vfs_addstamp () without the VFSF_LOCAL test
vfs_addstamp_local(list, v, id, tv) ==
    IF id = "NULL"
    THEN list
    ELSE LET found == vfs_stamp(list, v, id, tv)
         IN  IF ~found.ret
             THEN Append(found.stamps, [v |-> v, id |-> id, time |-> tv])
             ELSE found.stamps

\* vfs_addstamp () that skips the test of id != NULL
vfs_addstamp_nullid(list, v, id, tv) ==
    IF vfs_class[v].VFSF_LOCAL
    THEN list
    ELSE LET found == vfs_stamp(list, v, id, tv)
         IN  IF ~found.ret
             THEN Append(found.stamps, [v |-> v, id |-> id, time |-> tv])
             ELSE found.stamps

\* vfs_addstamp () that only looks the stamp up and leaves its time alone
vfs_addstamp_lookup(list, v, id, tv) ==
    IF vfs_class[v].VFSF_LOCAL \/ id = "NULL"
    THEN list
    ELSE IF g_slist_find_custom(list, Key(v, id)) = 0
         THEN Append(list, [v |-> v, id |-> id, time |-> tv])
         ELSE list

\* vfs_addstamp (v, id): append a stamp unless the class is local, the id is
\* NULL or vfs_stamp () found (and refreshed) one
vfs_addstamp(list, v, id, tv) ==
    IF vfs_class[v].VFSF_LOCAL \/ id = "NULL"
    THEN list
    ELSE LET found == vfs_stamp(list, v, id, tv)
         IN  IF ~found.ret
             THEN Append(found.stamps, [v |-> v, id |-> id, time |-> tv])
             ELSE found.stamps

\* vfs_stamp_path () that calls vfs_stamp () instead of vfs_addstamp ()
vfs_stamp_path_touch(list, v, id, tv) == vfs_stamp(list, v, id, tv).stamps

\* vfs_stamp_path (path): the path resolves to (v, id); vfs_addstamp ()
vfs_stamp_path(list, v, id, tv) == vfs_addstamp(list, v, id, tv)

\* vfs_stamp_create () without the mc_event_present () test
vfs_stamp_create_nopresent(list, present, cur, vclass, id, rejected, idle, tv) ==
    LET l1 == vfs_rmstamp(list, cur.v, cur.id)
    IN  IF ~(id = "NULL" \/ (cur.v = vclass /\ cur.id = id))
        THEN IF ~rejected /\ vclass # "NULL"
                /\ vfs_class[vclass].nothingisopen
             THEN [stamps |-> IF idle
                              THEN vfs_addstamp(l1, vclass, id, tv)
                              ELSE l1,
                   raised |-> TRUE, consulted |-> TRUE]
             ELSE [stamps |-> l1, raised |-> TRUE, consulted |-> FALSE]
        ELSE [stamps |-> l1, raised |-> FALSE, consulted |-> FALSE]

\* vfs_stamp_create () that calls vfs_rmstamp () for the current directory
\* only after the test of id, inside the branch that raises the event
vfs_stamp_create_latermstamp(list, present, cur, vclass, id, rejected, idle, tv) ==
    IF ~present
    THEN [stamps |-> list, raised |-> FALSE, consulted |-> FALSE]
    ELSE IF ~(id = "NULL" \/ (cur.v = vclass /\ cur.id = id))
         THEN LET l1 == vfs_rmstamp(list, cur.v, cur.id)
              IN  IF ~rejected /\ vclass # "NULL"
                     /\ vfs_class[vclass].nothingisopen
                  THEN [stamps |-> IF idle
                                   THEN vfs_addstamp(l1, vclass, id, tv)
                                   ELSE l1,
                        raised |-> TRUE, consulted |-> TRUE]
                  ELSE [stamps |-> l1, raised |-> TRUE, consulted |-> FALSE]
         ELSE [stamps |-> list, raised |-> FALSE, consulted |-> FALSE]

\* vfs_stamp_create () that does not read event_data.ret after the event
vfs_stamp_create_noveto(list, present, cur, vclass, id, rejected, idle, tv) ==
    IF ~present
    THEN [stamps |-> list, raised |-> FALSE, consulted |-> FALSE]
    ELSE LET l1 == vfs_rmstamp(list, cur.v, cur.id)
         IN  IF ~(id = "NULL" \/ (cur.v = vclass /\ cur.id = id))
             THEN IF vclass # "NULL" /\ vfs_class[vclass].nothingisopen
                  THEN [stamps |-> IF idle
                                   THEN vfs_addstamp(l1, vclass, id, tv)
                                   ELSE l1,
                        raised |-> TRUE, consulted |-> TRUE]
                  ELSE [stamps |-> l1, raised |-> TRUE, consulted |-> FALSE]
             ELSE [stamps |-> l1, raised |-> FALSE, consulted |-> FALSE]

\* vfs_stamp_create (vclass, id).  present: a handler is registered for the
\* event; cur: the current directory; rejected: event_data.ret after the event
\* was raised; idle: vclass->nothingisopen (id) != 0.
\* raised / consulted tell whether the event was raised and whether
\* nothingisopen was called.
vfs_stamp_create(list, present, cur, vclass, id, rejected, idle, tv) ==
    IF ~present
    THEN [stamps |-> list, raised |-> FALSE, consulted |-> FALSE]
    ELSE LET l1 == vfs_rmstamp(list, cur.v, cur.id)
         IN  IF ~(id = "NULL" \/ (cur.v = vclass /\ cur.id = id))
             THEN IF ~rejected /\ vclass # "NULL"
                     /\ vfs_class[vclass].nothingisopen
                  THEN [stamps |-> IF idle
                                   THEN vfs_addstamp(l1, vclass, id, tv)
                                   ELSE l1,
                        raised |-> TRUE, consulted |-> TRUE]
                  ELSE [stamps |-> l1, raised |-> TRUE, consulted |-> FALSE]
             ELSE [stamps |-> l1, raised |-> FALSE, consulted |-> FALSE]

\* vfs_release_path (vpath): the path resolves to (v, id); vfs_stamp_create ()
vfs_release_path(list, present, cur, v, id, rejected, idle, tv) ==
    vfs_stamp_create(list, present, cur, v, id, rejected, idle, tv)

\* the test of vfs_stamp_free (): the class has a free callback to call
vfs_stamp_free(stamp) == vfs_class[stamp.v].free

\* vfs_stamp_expire () that compares the time on a forced sweep too
vfs_stamp_expire_noforce(stamp, now, lc_time) ==
    timeoutcmp(stamp.time, lc_time)

\* vfs_stamp_expire () that frees a stamp in a forced sweep only
vfs_stamp_expire_forcedonly(stamp, now, lc_time) == now

\* the test of vfs_stamp_expire (): user_data == NULL (a forced sweep) or the
\* stamp is not later than the cutoff
vfs_stamp_expire(stamp, now, lc_time) ==
    now \/ timeoutcmp(stamp.time, lc_time)

\* a cutoff computed from the initial value of vfs_timeout
Cutoff_default(tv, timeout) ==
    [tv_sec |-> tv.tv_sec - DefaultTimeout, tv_usec |-> tv.tv_usec]

\* the cutoff of vfs_expire (FALSE): gettimeofday (), tv_sec -= vfs_timeout
Cutoff(tv, timeout) ==
    [tv_sec |-> tv.tv_sec - timeout, tv_usec |-> tv.tv_usec]

\* vfs_timeouts () that wants a second stamp before it asks for a check
vfs_timeouts_second(list) == IF Len(list) > 1 THEN 10 ELSE 0

\* vfs_timeouts ()
vfs_timeouts(list) == IF list # <<>> THEN 10 ELSE 0

(***************************************************************************)
(* The call stack.  A frame is a running vfs_expire () or vfs_gc_done ()   *)
(* inside its g_slist_foreach (), or a running free callback.              *)
(*   next : the list position g_slist_foreach () saved to visit next;      *)
(*          0 is NULL, -1 a pointer to a node that was freed meanwhile     *)
(*   stale: the (v, id) the freed node held                                *)
(*   cur  : the (v, id) whose free callback this frame is waiting for, or  *)
(*          that a free frame is releasing                                 *)
(*   calls: how often a free frame has called vfs_expire ()                *)
(*   now  : the argument of the vfs_expire () this frame runs or, for a    *)
(*          free frame, last called                                        *)
(***************************************************************************)
Frame(fn, now, lc_time, next, cur) ==
    [fn |-> fn, now |-> now, lc_time |-> lc_time, next |-> next,
     stale |-> NoKey, cur |-> cur, calls |-> 0]

FirstLink(list) == IF list # <<>> THEN 1 ELSE 0
NextOf(list, i) == IF i < Len(list) THEN i + 1 ELSE 0
Top == stack[Len(stack)]
Idle == stack = <<>> /\ ~crashed

\* the saved positions of all frames after the node at position j, which held
\* key, was unlinked and freed (j = 0: nothing was removed)
Unlink(stk, j, key) ==
    [i \in DOMAIN stk |->
        IF j = 0 \/ stk[i].next < j THEN stk[i]
        ELSE IF stk[i].next = j
             THEN [stk[i] EXCEPT !.next = -1, !.stale = key]
             ELSE [stk[i] EXCEPT !.next = @ - 1]]

\* vfs_expire () without the test of the latch
vfs_expire_nolatch(lck, list, now, tv, timeout) ==
    [run |-> TRUE, locked |-> TRUE,
     frame |-> Frame("vfs_expire", now,
                     IF now THEN ZeroTime ELSE Cutoff(tv, timeout),
                     FirstLink(list), NoKey)]

\* vfs_expire (now) up to its g_slist_foreach (): the latch test, the latch
\* and the cutoff.  run tells whether the body is entered.
vfs_expire(lck, list, now, tv, timeout) ==
    IF lck
    THEN [run |-> FALSE, locked |-> lck]
    ELSE [run |-> TRUE, locked |-> TRUE,
          frame |-> Frame("vfs_expire", now,
                          IF now THEN ZeroTime ELSE Cutoff(tv, timeout),
                          FirstLink(list), NoKey)]

\* what is recorded of a public call:
\*   now: the argument of vfs_expire ();  ret: the return value of vfs_stamp (),
\*   event_data.ret after the event of vfs_stamp_create (), whether the body
\*   of vfs_expire () was entered;  had: (v, id) had a stamp when the call
\*   began;  raised: the event was raised;  consulted: nothingisopen was
\*   called;  idle: it returned non-zero
\*   present, cur: what mc_event_present () and vfs_get_raw_current_dir ()
\*   answered to vfs_stamp_create ();  hint: the return value of
\*   vfs_timeouts ()
OpRec(name, v, id, now, ret, had) ==
    [name |-> name, v |-> v, id |-> id, now |-> now, ret |-> ret,
     had |-> had, raised |-> FALSE, consulted |-> FALSE, idle |-> FALSE,
     present |-> FALSE, cur |-> NoKey, hint |-> 0]
NoOp == OpRec("none", "NULL", "NULL", FALSE, FALSE, FALSE)
Had(list, v, id) == g_slist_find_custom(list, Key(v, id)) # 0

(***************************************************************************)
(* The public calls that run to completion without a callback.             *)
(***************************************************************************)
Call_vfs_stamp(v, id) ==
    /\ Idle
    /\ LET r == vfs_stamp(stamps, v, id, clock)
       IN  /\ stamps' = r.stamps
           /\ op' = OpRec("vfs_stamp", v, id, FALSE, r.ret,
                          Had(stamps, v, id))
    /\ pre' = <<>>
    /\ released' = NoRelease
    /\ UNCHANGED <<locked, vfs_timeout, clock, stack, crashed>>

Call_vfs_rmstamp(v, id) ==
    /\ Idle
    /\ stamps' = vfs_rmstamp(stamps, v, id)
    /\ op' = OpRec("vfs_rmstamp", v, id, FALSE, FALSE,
                   Had(stamps, v, id))
    /\ pre' = <<>>
    /\ released' = NoRelease
    /\ UNCHANGED <<locked, vfs_timeout, clock, stack, crashed>>

Call_vfs_stamp_path(v, id) ==
    /\ Idle
    /\ stamps' = vfs_stamp_path(stamps, v, id, clock)
    /\ Len(stamps') <= MaxStamps
    /\ op' = OpRec("vfs_stamp_path", v, id, FALSE, FALSE,
                   Had(stamps, v, id))
    /\ pre' = <<>>
    /\ released' = NoRelease
    /\ UNCHANGED <<locked, vfs_timeout, clock, stack, crashed>>

\* vfs_stamp_create (vclass, id); present and cur are what
\* mc_event_present () and vfs_get_raw_current_dir () answer, rejected and
\* idle what the event handlers and nothingisopen answer when they are asked
Call_vfs_stamp_create(vclass, id, present, cur, rejected, idle) ==
    /\ Idle
    /\ LET r == vfs_stamp_create(stamps, present, cur, vclass, id,
                                 rejected, idle, clock)
       IN  /\ stamps' = r.stamps
           /\ Len(stamps') <= MaxStamps
           /\ rejected => r.raised
           /\ idle => r.consulted
           /\ op' = [OpRec("vfs_stamp_create", vclass, id, FALSE, rejected,
                           Had(stamps, vclass, id))
                        EXCEPT !.raised = r.raised,
                               !.consulted = r.consulted,
                               !.idle = idle,
                               !.present = present,
                               !.cur = cur]
    /\ pre' = <<>>
    /\ released' = NoRelease
    /\ UNCHANGED <<locked, vfs_timeout, clock, stack, crashed>>

\* vfs_release_path (vpath): the path resolves to (v, id), and the call is
\* vfs_stamp_create (v, id)
Call_vfs_release_path(v, id, present, cur, rejected, idle) ==
    /\ Idle
    /\ LET r == vfs_release_path(stamps, present, cur, v, id,
                                 rejected, idle, clock)
       IN  /\ stamps' = r.stamps
           /\ Len(stamps') <= MaxStamps
           /\ rejected => r.raised
           /\ idle => r.consulted
           /\ op' = [OpRec("vfs_stamp_create", v, id, FALSE, rejected,
                           Had(stamps, v, id))
                        EXCEPT !.raised = r.raised,
                               !.consulted = r.consulted,
                               !.idle = idle,
                               !.present = present,
                               !.cur = cur]
    /\ pre' = <<>>
    /\ released' = NoRelease
    /\ UNCHANGED <<locked, vfs_timeout, clock, stack, crashed>>

\* vfs_timeouts (): the main loop asks how long to wait for the next check
Call_vfs_timeouts ==
    /\ Idle
    /\ op' = [OpRec("vfs_timeouts", "NULL", "NULL", FALSE, FALSE, FALSE)
                EXCEPT !.hint = vfs_timeouts(stamps)]
    /\ pre' = <<>>
    /\ released' = NoRelease
    /\ UNCHANGED <<stamps, locked, vfs_timeout, clock, stack, crashed>>

(***************************************************************************)
(* The sweep.                                                              *)
(***************************************************************************)
\* a top-level vfs_expire (now)
Call_vfs_expire(now) ==
    /\ Idle
    /\ LET r == vfs_expire(locked, stamps, now, clock, vfs_timeout)
       IN  /\ locked' = r.locked
           /\ stack' = IF r.run THEN <<r.frame>> ELSE stack
           /\ op' = OpRec("vfs_expire", "NULL", "NULL", now, r.run,
                          FALSE)
    /\ pre' = stamps
    /\ released' = NoRelease
    /\ UNCHANGED <<stamps, vfs_timeout, clock, crashed>>

\* vfs_timeout_handler (): the timer's call of vfs_expire (FALSE)
Call_vfs_timeout_handler ==
    /\ Idle
    /\ LET r == vfs_expire(locked, stamps, FALSE, clock, vfs_timeout)
       IN  /\ locked' = r.locked
           /\ stack' = IF r.run THEN <<r.frame>> ELSE stack
           /\ op' = OpRec("vfs_expire", "NULL", "NULL", FALSE, r.run,
                          FALSE)
    /\ pre' = stamps
    /\ released' = NoRelease
    /\ UNCHANGED <<stamps, vfs_timeout, clock, crashed>>

\* the running free callback calls vfs_expire (now)
Nested_vfs_expire(now) ==
    /\ ~crashed
    /\ stack # <<>>
    /\ Top.fn = "free"
    /\ Top.calls < MaxNestedCalls
    /\ LET r == vfs_expire(locked, stamps, now, clock, vfs_timeout)
           counted == [stack EXCEPT ![Len(stack)].calls = @ + 1,
                                    ![Len(stack)].now = now]
       IN  /\ locked' = r.locked
           /\ stack' = IF r.run THEN Append(counted, r.frame) ELSE counted
    /\ UNCHANGED <<stamps, vfs_timeout, clock, crashed, op, pre, released>>

\* one iteration of g_slist_foreach (stamps, vfs_stamp_expire, ...), up to the
\* call of the free callback
Step_vfs_stamp_expire ==
    /\ ~crashed
    /\ stack # <<>>
    /\ Top.fn = "vfs_expire"
    /\ Top.next >= 1
    /\ LET n == Len(stack)
           stamp == stamps[Top.next]
           nxt == NextOf(stamps, Top.next)
       IN  IF vfs_stamp_expire(stamp, Top.now, Top.lc_time)
           THEN IF vfs_stamp_free(stamp)
                THEN /\ released' =
                            [released EXCEPT ![KeyOf(stamp)] = @ + 1]
                     /\ stack' =
                            Append([stack EXCEPT ![n].next = nxt,
                                                 ![n].cur = KeyOf(stamp)],
                                   Frame("free", FALSE, ZeroTime, 0,
                                         KeyOf(stamp)))
                     /\ UNCHANGED stamps
                ELSE /\ stamps' = vfs_rmstamp(stamps, stamp.v, stamp.id)
                     /\ stack' =
                            Unlink([stack EXCEPT ![n].next = nxt],
                                   g_slist_find_custom(stamps, KeyOf(stamp)),
                                   KeyOf(stamp))
                     /\ UNCHANGED released
           ELSE /\ stack' = [stack EXCEPT ![n].next = nxt]
                /\ UNCHANGED <<stamps, released>>
    /\ UNCHANGED <<locked, vfs_timeout, clock, crashed, op, pre>>

\* the free callback returns; vfs_stamp_expire () goes on to vfs_rmstamp (),
\* vfs_stamp_free () called by vfs_gc_done () just returns
Return_free ==
    /\ ~crashed
    /\ Len(stack) >= 2
    /\ Top.fn = "free"
    /\ LET n == Len(stack) - 1
           caller == stack[n]
           rest == [SubSeq(stack, 1, n) EXCEPT ![n].cur = NoKey]
       IN  IF caller.fn = "vfs_expire"
           THEN /\ stamps' = vfs_rmstamp(stamps, caller.cur.v, caller.cur.id)
                /\ stack' = Unlink(rest,
                                   g_slist_find_custom(stamps, caller.cur),
                                   caller.cur)
           ELSE /\ stack' = rest
                /\ UNCHANGED stamps
    /\ UNCHANGED <<locked, vfs_timeout, clock, crashed, op, pre, released>>

\* a return of vfs_expire () that leaves locked as it is
Return_vfs_expire_keeplatch ==
    /\ ~crashed
    /\ stack # <<>>
    /\ Top.fn = "vfs_expire"
    /\ Top.next = 0
    /\ stack' = SubSeq(stack, 1, Len(stack) - 1)
    /\ UNCHANGED <<stamps, locked, vfs_timeout, clock, crashed, op, pre,
                   released>>

\* g_slist_foreach () of vfs_expire () is through: locked = FALSE, return
Return_vfs_expire ==
    /\ ~crashed
    /\ stack # <<>>
    /\ Top.fn = "vfs_expire"
    /\ Top.next = 0
    /\ locked' = FALSE
    /\ stack' = SubSeq(stack, 1, Len(stack) - 1)
    /\ UNCHANGED <<stamps, vfs_timeout, clock, crashed, op, pre, released>>

(***************************************************************************)
(* The teardown.                                                           *)
(***************************************************************************)
\* vfs_gc_done () up to its g_slist_foreach (stamps, vfs_stamp_free, NULL)
Call_vfs_gc_done ==
    /\ Idle
    /\ stack' = <<Frame("vfs_gc_done", TRUE, ZeroTime, FirstLink(stamps),
                        NoKey)>>
    /\ op' = OpRec("vfs_gc_done", "NULL", "NULL", FALSE, FALSE, FALSE)
    /\ pre' = stamps
    /\ released' = NoRelease
    /\ UNCHANGED <<stamps, locked, vfs_timeout, clock, crashed>>

\* one iteration of that g_slist_foreach (): vfs_stamp_free () on the node
Step_vfs_stamp_free ==
    /\ ~crashed
    /\ stack # <<>>
    /\ Top.fn = "vfs_gc_done"
    /\ Top.next >= 1
    /\ LET n == Len(stack)
           stamp == stamps[Top.next]
           nxt == NextOf(stamps, Top.next)
       IN  IF vfs_stamp_free(stamp)
           THEN /\ released' = [released EXCEPT ![KeyOf(stamp)] = @ + 1]
                /\ stack' =
                       Append([stack EXCEPT ![n].next = nxt,
                                            ![n].cur = KeyOf(stamp)],
                              Frame("free", FALSE, ZeroTime, 0, KeyOf(stamp)))
           ELSE /\ stack' = [stack EXCEPT ![n].next = nxt]
                /\ UNCHANGED released
    /\ UNCHANGED <<stamps, locked, vfs_timeout, clock, crashed, op, pre>>

\* g_slist_foreach () is through: g_slist_free_full (), stamps = NULL
Return_vfs_gc_done ==
    /\ ~crashed
    /\ stack # <<>>
    /\ Top.fn = "vfs_gc_done"
    /\ Top.next = 0
    /\ stamps' = <<>>
    /\ stack' = SubSeq(stack, 1, Len(stack) - 1)
    /\ UNCHANGED <<locked, vfs_timeout, clock, crashed, op, pre, released>>

(***************************************************************************)
(* g_slist_foreach () saved a pointer to the next node before it called    *)
(* the function; a sweep run by the free callback has freed that node.     *)
(* Reading it is undefined: the process dies, or the freed memory still    *)
(* holds what the node held (its data, and the NULL g_slist_delete_link () *)
(* wrote to its next field) and the callback is called on the freed stamp. *)
(***************************************************************************)
Dangling_crash ==
    /\ ~crashed
    /\ stack # <<>>
    /\ Top.fn \in {"vfs_gc_done", "vfs_expire"}
    /\ Top.next = -1
    /\ crashed' = TRUE
    /\ UNCHANGED <<stamps, locked, vfs_timeout, clock, stack, op, pre, released>>

Dangling_stale ==
    /\ ~crashed
    /\ stack # <<>>
    /\ Top.fn = "vfs_gc_done"
    /\ Top.next = -1
    /\ LET n == Len(stack)
           key == Top.stale
       IN  IF vfs_class[key.v].free
           THEN /\ released' = [released EXCEPT ![key] = @ + 1]
                /\ stack' =
                       Append([stack EXCEPT ![n].next = 0, ![n].cur = key,
                                            ![n].stale = NoKey],
                              Frame("free", FALSE, ZeroTime, 0, key))
           ELSE /\ stack' = [stack EXCEPT ![n].next = 0, ![n].stale = NoKey]
                /\ UNCHANGED released
    /\ UNCHANGED <<stamps, locked, vfs_timeout, clock, crashed, op, pre>>

(***************************************************************************)
(* The environment: time passes, the user changes the timeout.             *)
(***************************************************************************)
Later(t1, t2) ==
    \/ t1.tv_sec < t2.tv_sec
    \/ (t1.tv_sec = t2.tv_sec /\ t1.tv_usec < t2.tv_usec)

Tick(t) ==
    /\ Idle
    /\ Later(clock, t)
    /\ clock' = t
    /\ op' = NoOp
    /\ pre' = <<>>
    /\ released' = NoRelease
    /\ UNCHANGED <<stamps, locked, vfs_timeout, stack, crashed>>

SetTimeout(t) ==
    /\ Idle
    /\ t # vfs_timeout
    /\ vfs_timeout' = t
    /\ op' = NoOp
    /\ pre' = <<>>
    /\ released' = NoRelease
    /\ UNCHANGED <<stamps, locked, clock, stack, crashed>>

(***************************************************************************)
(* The specification.                                                      *)
(***************************************************************************)
Init ==
    /\ stamps = <<>>
    /\ locked = FALSE
    /\ vfs_timeout = DefaultTimeout
    /\ clock = FirstTime
    /\ stack = <<>>
    /\ crashed = FALSE
    /\ op = NoOp
    /\ pre = <<>>
    /\ released = NoRelease

Next ==
    \/ \E a \in Args : Call_vfs_stamp(a.v, a.id)
    \/ \E a \in Args : Call_vfs_rmstamp(a.v, a.id)
    \/ \E a \in Paths : Call_vfs_stamp_path(a.v, a.id)
    \/ \E a \in Args, present \in BOOLEAN, cur \in CurrentDirs,
          rejected \in BOOLEAN, idle \in BOOLEAN :
            Call_vfs_stamp_create(a.v, a.id, present, cur, rejected, idle)
    \/ \E a \in Paths, present \in BOOLEAN, cur \in CurrentDirs,
          rejected \in BOOLEAN, idle \in BOOLEAN :
            Call_vfs_release_path(a.v, a.id, present, cur, rejected, idle)
    \/ \E now \in BOOLEAN : Call_vfs_expire(now)
    \/ Call_vfs_timeout_handler
    \/ Call_vfs_timeouts
    \/ \E now \in BOOLEAN : Nested_vfs_expire(now)
    \/ Step_vfs_stamp_expire
    \/ Return_free
    \/ Return_vfs_expire
    \/ Call_vfs_gc_done
    \/ Step_vfs_stamp_free
    \/ Return_vfs_gc_done
    \/ Dangling_crash
    \/ Dangling_stale
    \/ \E t \in Times : Tick(t)
    \/ \E t \in Timeouts : SetTimeout(t)

Spec == Init /\ [][Next]_vars

(***************************************************************************)
(* The timer at work.  Stamps are made, refreshed and deleted by the file  *)
(* manager while the clock shows its first reading and are left alone      *)
(* from then on; the clock goes on, and the main loop keeps calling        *)
(* vfs_timeout_handler ().  Every function called returns: the g_slist_    *)
(* foreach () of a sweep goes through the list and the free callbacks,     *)
(* which may call vfs_expire () themselves, come back.                     *)
(***************************************************************************)
Early_vfs_stamp_path ==
    /\ clock = FirstTime
    /\ \E a \in Paths : Call_vfs_stamp_path(a.v, a.id)

Early_vfs_stamp ==
    /\ clock = FirstTime
    /\ \E a \in Args : Call_vfs_stamp(a.v, a.id)

Early_vfs_rmstamp ==
    /\ clock = FirstTime
    /\ \E a \in Args : Call_vfs_rmstamp(a.v, a.id)

\* gettimeofday () returns a later time
Advance == \E t \in Times : Tick(t)

TimerNext ==
    \/ Early_vfs_stamp_path
    \/ Early_vfs_stamp
    \/ Early_vfs_rmstamp
    \/ Advance
    \/ \E t \in Timeouts : SetTimeout(t)
    \/ Call_vfs_timeout_handler
    \/ \E now \in BOOLEAN : Nested_vfs_expire(now)
    \/ Step_vfs_stamp_expire
    \/ Return_free
    \/ Return_vfs_expire

TimerSpec ==
    /\ Init
    /\ [][TimerNext]_vars
    /\ SF_vars(Advance)
    /\ WF_vars(Call_vfs_timeout_handler)
    /\ WF_vars(Step_vfs_stamp_expire)
    /\ WF_vars(Return_free)
    /\ WF_vars(Return_vfs_expire)

(***************************************************************************)
(* Properties.                                                             *)
(***************************************************************************)
\* number of stamps of the list that carry the key
Count(list, key) == Cardinality({i \in 1..Len(list) : KeyOf(list[i]) = key})
\* a time in microseconds
Micros(t) == t.tv_sec * 1000000 + t.tv_usec
\* the stamp is not later than the clock minus the timeout
Aged(stamp) == Micros(stamp.time) <= Micros(clock) - vfs_timeout * 1000000
Fresh(stamp) == ~Aged(stamp)
\* the last public call was a vfs_expire () that has returned
SweepDone(now) ==
    /\ op.name = "vfs_expire"
    /\ op.now = now
    /\ op.ret
    /\ stack = <<>>
    /\ ~crashed

\* C1: the list never holds two stamps with the same (class, id), and a
\* vfs_stamp_path () or vfs_stamp_create () on a pair that had a stamp leaves
\* at most one, vfs_stamp_path () exactly one.
C1_OneStampPerPair ==
    /\ \A i, j \in 1..Len(stamps) :
            i # j => KeyOf(stamps[i]) # KeyOf(stamps[j])
    /\ (op.name \in {"vfs_stamp_path", "vfs_stamp_create"} /\ op.had)
            => Count(stamps, Key(op.v, op.id)) <= 1
    /\ (op.name = "vfs_stamp_path" /\ op.had)
            => Count(stamps, Key(op.v, op.id)) = 1

\* a second conditional create of a stamped pair went all the way to
\* vfs_addstamp (), next to another stamp
C1_Witness ==
    /\ op.name = "vfs_stamp_create"
    /\ op.had
    /\ op.consulted
    /\ op.idle
    /\ Count(stamps, Key(op.v, op.id)) = 1
    /\ Len(stamps) = 2

\* C2: when a top-level vfs_expire (TRUE) has returned the list is empty and
\* the free callback was called exactly once for every stamp the list held
\* when it was called.
C2_ForcedSweepReleasesAll ==
    SweepDone(TRUE) =>
        /\ stamps = <<>>
        /\ \A k \in AllKeys : released[k] = Count(pre, k)

\* a forced sweep has freed two stamps, one of them too young to expire
C2_Witness ==
    /\ SweepDone(TRUE)
    /\ Len(pre) = 2
    /\ \E i \in 1..Len(pre) : Fresh(pre[i])
    /\ \E i \in 1..Len(pre) : pre[i].time # pre[1].time

\* C3: when a top-level vfs_expire (FALSE) has returned, exactly the stamps
\* not later than now - vfs_timeout are gone and their free callback was
\* called once each; the later ones are left as they were, not released.
C3_SweepCutoff ==
    SweepDone(FALSE) =>
        /\ stamps = SelectSeq(pre, Fresh)
        /\ \A k \in AllKeys :
                released[k] =
                    Cardinality({i \in 1..Len(pre) :
                                    KeyOf(pre[i]) = k /\ Aged(pre[i])})

\* with the timeout at 60 a sweep has released a stamp exactly 60 s old and
\* kept a younger one
C3_Witness ==
    /\ SweepDone(FALSE)
    /\ vfs_timeout = 60
    /\ Len(pre) = 2
    /\ Len(stamps) = 1
    /\ \E i \in 1..Len(pre) :
            Micros(pre[i].time) = Micros(clock) - 60 * 1000000
    /\ Micros(stamps[1].time) > Micros(clock) - 60 * 1000000

\* C4: while a top-level vfs_expire () runs and its free callbacks call
\* vfs_expire () again, no (class, id) is released twice, only one
\* vfs_expire () body is ever running, the call stack never grows beyond
\* the sweep and one callback, and the sweep's saved position is always NULL
\* or a node of the list, so that every iteration consumes one stamp.
C4_NoDoubleReleaseInSweep ==
    op.name = "vfs_expire" =>
        /\ \A k \in AllKeys : released[k] <= 1
        /\ Cardinality({i \in 1..Len(stack) : stack[i].fn = "vfs_expire"}) <= 1
        /\ Len(stack) <= 2
        /\ \A i \in 1..Len(stack) :
                stack[i].fn = "vfs_expire" => stack[i].next \in 0..Len(stamps)
        /\ ~crashed

\* the callback of the second of two expiring stamps has called vfs_expire ()
C4_Witness ==
    /\ op.name = "vfs_expire"
    /\ Len(stack) = 2
    /\ Top.fn = "free"
    /\ Top.calls >= 1
    /\ \E k \in AllKeys : k # Top.cur /\ released[k] = 1
    /\ released[Top.cur] = 1

\* a step in which a running free callback calls vfs_expire () while the
\* latch is set
SuppressedCall ==
    /\ stack # <<>>
    /\ Top.fn = "free"
    /\ locked
    /\ Len(stack') >= Len(stack)
    /\ stack'[Len(stack)].fn = "free"
    /\ stack'[Len(stack)].calls = Top.calls + 1

\* C5: a vfs_expire () called while the latch is set changes nothing but the
\* caller's own progress: no stamp, no release, no latch, no new sweep on the
\* stack; and throughout and after a top-level vfs_expire (FALSE) every stamp
\* later than the cutoff is still in the list with its time, unreleased.
C5_NestedSweepSuppressed ==
    /\ [][SuppressedCall =>
            /\ stamps' = stamps
            /\ released' = released
            /\ locked' = locked
            /\ stack' = [stack EXCEPT ![Len(stack)].calls = @ + 1,
                                      ![Len(stack)].now = stack'[Len(stack)].now]
         ]_vars
    /\ [](op.name = "vfs_expire" /\ ~op.now =>
            \A i \in 1..Len(pre) :
                Fresh(pre[i]) =>
                    /\ \E j \in 1..Len(stamps) : stamps[j] = pre[i]
                    /\ released[KeyOf(pre[i])] = 0)

\* inside a vfs_expire (FALSE) a callback has called vfs_expire (TRUE) while a
\* stamp later than the cutoff is in the list
C5_Witness ==
    /\ op.name = "vfs_expire"
    /\ ~op.now
    /\ Len(stack) = 2
    /\ Top.fn = "free"
    /\ Top.calls >= 1
    /\ Top.now
    /\ \E i \in 1..Len(stamps) : Fresh(stamps[i])

\* C6: when vfs_gc_done () has returned the list is empty and the free
\* callback was called exactly once for every stamp the list held when it was
\* called, also when a callback called vfs_expire ().
C6_ShutdownReleasesOnce ==
    (op.name = "vfs_gc_done" /\ stack = <<>> /\ ~crashed) =>
        /\ stamps = <<>>
        /\ \A k \in AllKeys : released[k] = Count(pre, k)

\* C7: the list never holds a stamp of a class with VFSF_LOCAL.
C7_NoLocalStamp ==
    \A i \in 1..Len(stamps) : stamps[i].v # "local"

\* a vfs_stamp_create () on a local class with a non-null id was not vetoed
\* and found nothing open
C7_Witness ==
    /\ op.name = "vfs_stamp_create"
    /\ op.v = "local"
    /\ op.id # "NULL"
    /\ op.consulted
    /\ op.idle
    /\ ~op.had

\* the list with the time of its i-th stamp set to tv
Refreshed(list, i, tv) ==
    [j \in 1..Len(list) |->
        IF j = i THEN [v |-> list[j].v, id |-> list[j].id, time |-> tv]
        ELSE list[j]]
\* position of a stamp of the pair in the list, 0 when there is none
PositionOf(list, v, id) ==
    IF \E i \in 1..Len(list) : list[i].v = v /\ list[i].id = id
    THEN CHOOSE i \in 1..Len(list) : list[i].v = v /\ list[i].id = id
    ELSE 0

\* C8: a vfs_stamp (v, id) step on a pair with a stamp returns TRUE and
\* changes the time of that stamp to the clock and nothing else; on a pair
\* without a stamp it returns FALSE and changes nothing.  It never changes
\* the length of the list and calls no free callback.
C8_TouchRefreshesOnly ==
    [][op'.name = "vfs_stamp" =>
        LET i == PositionOf(stamps, op'.v, op'.id)
        IN  /\ IF i # 0
               THEN op'.ret /\ stamps' = Refreshed(stamps, i, clock)
               ELSE ~op'.ret /\ stamps' = stamps
            /\ Len(stamps') = Len(stamps)
            /\ released' = NoRelease
      ]_vars

\* a vfs_stamp () found its stamp and moved its time ahead of the other
\* stamp's
C8_Witness ==
    /\ op.name = "vfs_stamp"
    /\ op.ret
    /\ Len(stamps) = 2
    /\ \E i, j \in 1..Len(stamps) :
            /\ KeyOf(stamps[i]) = Key(op.v, op.id)
            /\ stamps[i].time = clock
            /\ stamps[j].time # clock

\* C9: a vfs_rmstamp (v, id) step deletes the stamps of exactly that pair,
\* keeps all others and their order, and calls no free callback; a
\* vfs_stamp () of the same pair right after it returns FALSE.
C9_RemoveDeletesOnlyThePair ==
    /\ [][op'.name = "vfs_rmstamp" =>
            /\ stamps' = SelectSeq(stamps,
                                   LAMBDA r : ~(r.v = op'.v /\ r.id = op'.id))
            /\ released' = NoRelease
         ]_vars
    /\ [][(op.name = "vfs_rmstamp" /\ op'.name = "vfs_stamp"
           /\ op'.v = op.v /\ op'.id = op.id) => ~op'.ret
         ]_vars

\* a vfs_rmstamp () deleted the stamp of its pair and left another one of
\* the same class
C9_Witness ==
    /\ op.name = "vfs_rmstamp"
    /\ op.had
    /\ Len(stamps) = 1
    /\ stamps[1].v = op.v
    /\ stamps[1].id # op.id

\* C10 as stated: a vfs_stamp_path () step refreshes the stamp of the pair
\* the path resolves to when there is one and leaves the list unchanged when
\* there is none.
C10_StampPathOnlyRefreshes ==
    [][op'.name = "vfs_stamp_path" =>
        LET i == PositionOf(stamps, op'.v, op'.id)
        IN  IF i # 0
            THEN stamps' = Refreshed(stamps, i, clock)
            ELSE stamps' = stamps
      ]_vars

\* C10 amended: a vfs_stamp_path () step refreshes the stamp of the pair the
\* path resolves to when there is one; when there is none it appends a stamp
\* for the pair with the clock as its time, unless the class is local or the
\* id is null, and then it leaves the list unchanged.
C10_StampPathRefreshesOrCreates ==
    [][op'.name = "vfs_stamp_path" =>
        LET i == PositionOf(stamps, op'.v, op'.id)
        IN  IF i # 0
            THEN stamps' = Refreshed(stamps, i, clock)
            ELSE IF op'.v = "local" \/ op'.id = "NULL"
                 THEN stamps' = stamps
                 ELSE stamps' = stamps \o
                        <<[v |-> op'.v, id |-> op'.id, time |-> clock]>>
      ]_vars

\* a vfs_stamp_path () on a pair without a stamp has created one
C10_Witness ==
    /\ op.name = "vfs_stamp_path"
    /\ ~op.had
    /\ Len(stamps) = 2
    /\ stamps[2] = [v |-> op.v, id |-> op.id, time |-> clock]

\* the last public call was a vfs_stamp_create (), made directly or by
\* vfs_release_path ()
CreateCalled(o) == o.name = "vfs_stamp_create"
\* the list without the stamps of the pair
Without(list, key) == SelectSeq(list, LAMBDA r : KeyOf(r) # key)

\* C11: a vfs_stamp_create () / vfs_release_path () step made while no handler
\* is registered for the event leaves the list as it is, raises no event,
\* does not call nothingisopen and calls no free callback.
C11_InertWithoutListener ==
    [][(CreateCalled(op') /\ ~op'.present) =>
            /\ stamps' = stamps
            /\ ~op'.raised
            /\ ~op'.consulted
            /\ ~op'.ret
            /\ released' = NoRelease
      ]_vars

\* without a handler, a call for a stampable pair other than the current
\* directory has left the stamp of the current directory and created none
C11_Witness ==
    /\ CreateCalled(op)
    /\ ~op.present
    /\ op.v = "A"
    /\ op.id = "s2"
    /\ ~op.had
    /\ op.cur = [v |-> "A", id |-> "s1"]
    /\ Len(stamps) = 1
    /\ KeyOf(stamps[1]) = op.cur

\* C12 as stated: after every vfs_stamp_create () / vfs_release_path () the
\* list holds no stamp of the current directory, handler or not.
C12_CurrentAlwaysUnstamped ==
    CreateCalled(op) => Count(stamps, op.cur) = 0

\* C12 amended: a vfs_stamp_create () / vfs_release_path () step made while a
\* handler is registered leaves no stamp of the current directory, whatever
\* the veto and whether id is null or the current directory itself; made
\* while none is registered it leaves the list as it is.  Either way it calls
\* no free callback.
C12_CurrentUnstampedWithListener ==
    [][CreateCalled(op') =>
            /\ op'.present => Count(stamps', op'.cur) = 0
            /\ ~op'.present => stamps' = stamps
            /\ released' = NoRelease
      ]_vars

\* with a handler, a call for the current directory itself has deleted the
\* stamp the current directory had
C12_Witness ==
    /\ CreateCalled(op)
    /\ op.present
    /\ Key(op.v, op.id) = op.cur
    /\ op.had
    /\ ~op.raised
    /\ Count(stamps, op.cur) = 0

\* C13: a vfs_stamp_create () step adds a stamp for (vclass, id) only if a
\* handler is registered, id is not null, the pair is not the current
\* directory, no handler set event_data.ret, the class has a nothingisopen
\* callback and it reported nothing open, the class is not local and the pair
\* had no stamp; and it raises the event only if id is not null and the pair
\* is not the current directory.
C13_CreateOnlyWhenAllowed ==
    [][CreateCalled(op') =>
        LET key == Key(op'.v, op'.id)
        IN  /\ Count(stamps', key) > Count(stamps, key) =>
                    /\ op'.present
                    /\ op'.id # "NULL"
                    /\ key # op'.cur
                    /\ op'.raised
                    /\ ~op'.ret
                    /\ op'.v \in VfsClasses
                    /\ vfs_class[op'.v].nothingisopen
                    /\ op'.consulted
                    /\ op'.idle
                    /\ op'.v # "local"
                    /\ Count(stamps, key) = 0
            /\ op'.raised => (op'.id # "NULL" /\ key # op'.cur)
            /\ op'.consulted => (op'.raised /\ ~op'.ret)
      ]_vars

\* a vfs_stamp_create () has created the stamp of a pair that had none
C13_Witness ==
    /\ CreateCalled(op)
    /\ ~op.had
    /\ op.raised
    /\ op.consulted
    /\ op.idle
    /\ Count(stamps, Key(op.v, op.id)) = 1
    /\ stamps[Len(stamps)].time = clock

\* what C14 says vfs_timeouts () returns for the list
HintFor(list) == IF Len(list) >= 1 THEN 10 ELSE 0

\* C14: in every state vfs_timeouts () returns 10 when the list holds a stamp
\* and 0 when it holds none, whatever the age of the stamps; so does the
\* vfs_timeouts () call the main loop has just made.
C14_HintIffStamped ==
    /\ vfs_timeouts(stamps) = HintFor(stamps)
    /\ vfs_timeouts(stamps) \in {0, 10}
    /\ op.name = "vfs_timeouts" => op.hint = HintFor(stamps)

\* vfs_timeouts () answered 10 for a list whose only stamp is already due
C14_Witness ==
    /\ op.name = "vfs_timeouts"
    /\ op.hint = 10
    /\ Len(stamps) = 1
    /\ Aged(stamps[1])

\* age of a stamp in microseconds
Age(stamp) == Micros(clock) - Micros(stamp.time)

\* C15: vfs_timeout starts as 60, and a top-level vfs_expire (FALSE) takes
\* its cutoff from the value vfs_timeout has when it is called: a stamp at
\* least that old is freed and deleted, a younger one is kept.
C15_SweepReadsCurrentTimeout ==
    /\ vfs_timeout = 60
    /\ [][(op'.name = "vfs_expire" /\ ~op'.now /\ op'.ret
            /\ stack = <<>> /\ stack' # <<>>) =>
                /\ stack'[1].lc_time.tv_sec = clock.tv_sec - vfs_timeout
                /\ stack'[1].lc_time.tv_usec = clock.tv_usec
         ]_vars
    /\ [](SweepDone(FALSE) =>
            \A i \in 1..Len(pre) :
                /\ Age(pre[i]) >= vfs_timeout * 1000000 =>
                        /\ Count(stamps, KeyOf(pre[i])) = 0
                        /\ released[KeyOf(pre[i])] = 1
                /\ Age(pre[i]) < vfs_timeout * 1000000 =>
                        /\ \E j \in 1..Len(stamps) : stamps[j] = pre[i]
                        /\ released[KeyOf(pre[i])] = 0)

\* with the timeout lowered to 59 a sweep has freed a stamp 59 seconds old,
\* which the initial timeout would have kept
C15_Witness ==
    /\ SweepDone(FALSE)
    /\ vfs_timeout = 59
    /\ \E i \in 1..Len(pre) :
            /\ Age(pre[i]) = 59 * 1000000
            /\ Count(stamps, KeyOf(pre[i])) = 0
            /\ released[KeyOf(pre[i])] = 1

\* C17: locked is set exactly while a vfs_expire () body is on the call
\* stack; between public calls it is clear, and no top-level vfs_expire ()
\* has been suppressed.
C17_LatchOnlyWhileSweeping ==
    /\ locked <=> \E i \in 1..Len(stack) : stack[i].fn = "vfs_expire"
    /\ stack = <<>> => ~locked
    /\ op.name = "vfs_expire" => op.ret

\* a top-level sweep has run its body, freed a stamp and returned with the
\* latch clear
C17_Witness ==
    /\ op.name = "vfs_expire"
    /\ op.ret
    /\ stack = <<>>
    /\ ~crashed
    /\ ~locked
    /\ Len(stamps) < Len(pre)
    /\ \E k \in AllKeys : released[k] = 1

\* C18: no stamp of the list has a null id, and a vfs_stamp_path () or
\* vfs_stamp_create () called with a null id has created none.
C18_NoNullId ==
    /\ \A i \in 1..Len(stamps) : stamps[i].id # "NULL"
    /\ (op.name \in {"vfs_stamp_path", "vfs_stamp_create"} /\ op.id = "NULL")
            => Count(stamps, Key(op.v, op.id)) = 0

\* vfs_stamp_path () was called for a non-local class with a null id, next to
\* a stamp of that class
C18_Witness ==
    /\ op.name = "vfs_stamp_path"
    /\ op.v = "A"
    /\ op.id = "NULL"
    /\ Len(stamps) = 1
    /\ stamps[1].v = "A"

\* C19 as stated: a free callback is called only within vfs_expire () or
\* vfs_gc_done (), and only for a pair that has a stamp in the list at that
\* moment.
C19_ReleaseOnlyOfStamped ==
    [][\A k \in AllKeys :
            released'[k] > released[k] =>
                /\ op'.name \in {"vfs_expire", "vfs_gc_done"}
                /\ Count(stamps, k) >= 1
      ]_vars

\* C20: a vfs_stamp_path () step, or a vfs_stamp_create () step that gets as
\* far as vfs_addstamp (), on a non-local pair with a stamp adds no stamp and
\* sets the time of that stamp to the clock, so the stamp is not due under
\* the timeout; every other stamp stays (but that of the current directory in
\* vfs_stamp_create ()).
C20_AddOnStampedRefreshes ==
    [][(/\ op'.had
        /\ op'.v \notin {"local", "NULL"}
        /\ op'.id # "NULL"
        /\ \/ op'.name = "vfs_stamp_path"
           \/ CreateCalled(op') /\ op'.consulted /\ op'.idle) =>
            LET base == IF CreateCalled(op')
                        THEN Without(stamps, op'.cur)
                        ELSE stamps
                i == PositionOf(base, op'.v, op'.id)
            IN  /\ i >= 1
                /\ stamps' = Refreshed(base, i, clock)
                /\ Len(stamps') <= Len(stamps)
                /\ stamps'[i].time = clock'
                /\ Micros(stamps'[i].time)
                        > Micros(clock') - vfs_timeout' * 1000000
      ]_vars

\* a vfs_stamp_create () has moved the time of a stamp made earlier to the
\* clock, past the cutoff that stamp had reached
C20_Witness ==
    /\ CreateCalled(op)
    /\ op.had
    /\ op.consulted
    /\ op.idle
    /\ clock.tv_sec >= 59
    /\ LET i == PositionOf(stamps, op.v, op.id)
       IN  /\ i >= 1
           /\ stamps[i].time = clock
    /\ \E j \in 1..Len(stamps) : stamps[j].time = FirstTime

\* the pairs that can have a stamp
Stampable == {k \in AllKeys : k.v \in {"A", "B"} /\ k.id # "NULL"}
\* the timer's sweep has freed the stamp of the pair, once, and deleted it
FreedByTimer(k) ==
    /\ SweepDone(FALSE)
    /\ Count(pre, k) = 1
    /\ Count(stamps, k) = 0
    /\ released[k] = 1

\* C16: a stamp that is left alone while the clock goes on and the timer
\* keeps calling vfs_expire (FALSE) is in the end freed, once, and deleted by
\* one of those sweeps.
C16_IdleStampFreedInTheEnd ==
    \A k \in Stampable :
        (Count(stamps, k) >= 1 /\ clock # FirstTime) ~> FreedByTimer(k)

\* the timer has freed the second of two stamps, under the default timeout
C16_Witness ==
    /\ Len(pre) = 2
    /\ FreedByTimer(KeyOf(pre[2]))
    /\ vfs_timeout = 60
    /\ stamps = <<>>

====
